---- MODULE Spec2Model ----
(***************************************************************************)
(* AI Protein Tracker.                                                     *)
(*                                                                         *)
(* Two components are modelled:                                            *)
(*   - the Analysis Gateway, src/app/api/analyze/route.ts (POST), a pure   *)
(*     function of the request body and of what the upstream model does;   *)
(*   - the Session Tracker, src/unnamed/part_000 (the Home component), a   *)
(*     React component whose state is the useState cells and whose         *)
(*     operations are the event handlers and the asynchronous callbacks.   *)
(*                                                                         *)
(* A tracker state is a settled render: every action is a whole handler    *)
(* together with the useEffect recomputations React runs for the state it  *)
(* changed.                                                                *)
(***************************************************************************)
EXTENDS Integers, Sequences, FiniteSets, TLC

VARIABLES
  apiKey,          \* useState('')                       part_000:18
  weight,          \* useState(70)                       part_000:19
  goal,            \* useState('maintain')               part_000:20
  dailyGoal,       \* useState(112)                      part_000:21
  selectedFile,    \* useState<File | null>(null)        part_000:22
  previewUrl,      \* useState('')                       part_000:23
  analyzing,       \* useState(false)                    part_000:24
  currentAnalysis, \* useState<MealAnalysis | null>(null) part_000:25
  mealHistory,     \* useState<MealAnalysis[]>([])       part_000:26
  dailyTotal,      \* useState(0)                        part_000:27
  error,           \* useState('')                       part_000:28
  inflight,        \* FileReader loads and fetches started by analyzeImage, not yet settled
  gwRequest,       \* the body of the request the Gateway is handling
  gwUpstream,      \* what the upstream model does for that request
  gwResponse,      \* the Gateway's response, once POST has returned
  last             \* history: the operation that produced this state

trackerVars == <<apiKey, weight, goal, dailyGoal, selectedFile, previewUrl, analyzing,
                 currentAnalysis, mealHistory, dailyTotal, error, inflight>>
gatewayVars == <<gwRequest, gwUpstream, gwResponse>>
vars == <<trackerVars, gatewayVars, last>>

---------------------------------------------------------------------------
(* Bounds of the model *)

\* mealHistory entries plus analyses in flight
MaxMeals == 2
\* length, in tokens, of an upstream reply text
MaxLen == 5

---------------------------------------------------------------------------
(* Values *)

\* a JSON field that is not there (undefined / null)
Absent == "<absent>"
\* selectedFile = null, currentAnalysis = null
Null == "<null>"
\* response not yet produced
NoBody == [t |-> "none", v |-> <<>>]
NoResponse == [status |-> 0, error |-> "", body |-> NoBody]

\* JavaScript truthiness of a string field: !x
Falsy(x) == x = Absent \/ x = ""

---------------------------------------------------------------------------
(* Analysis Gateway: src/app/api/analyze/route.ts *)

\* An upstream reply text is a sequence of tokens:
\*   "{" and "}"   the braces;
\*   a number n    the member text  "totalProtein": n  ;
\*   "p"           a stretch of prose holding no brace (not JSON).
\* A nested object stands for a member whose value holds an object, as
\* "foods": [{...}] does.
NumberTokens == {"6", "49", "-10"}

NumberOf(tok) ==
  CASE tok = "6" -> 6
    [] tok = "49" -> 49
    [] tok = "-10" -> -10

Leaf(n) == [t |-> "num", v |-> n]
Obj(members) == [t |-> "obj", v |-> members]
ParseFail == [ok |-> FALSE, val |-> Obj(<<>>), next |-> 0]

\* JSON.parse, the members of an object whose "{" has been read: s[i..] up to
\* the matching "}".
RECURSIVE ParseMembers(_, _, _)
ParseMembers(s, i, acc) ==
  IF i > Len(s) THEN ParseFail
  ELSE IF s[i] = "}" THEN [ok |-> TRUE, val |-> Obj(acc), next |-> i + 1]
  ELSE IF s[i] \in NumberTokens
    THEN ParseMembers(s, i + 1, Append(acc, Leaf(NumberOf(s[i]))))
  ELSE IF s[i] = "{"
    THEN LET r == ParseMembers(s, i + 1, <<>>)
         IN IF r.ok THEN ParseMembers(s, r.next, Append(acc, r.val)) ELSE ParseFail
  ELSE ParseFail

\* JSON.parse(jsonMatch[0]): the whole text must be one object; anything left
\* after its closing brace is a SyntaxError.
JSONParse(s) ==
  IF s = <<>> \/ s[1] # "{" THEN ParseFail
  ELSE LET r == ParseMembers(s, 2, <<>>)
       IN IF r.ok /\ r.next = Len(s) + 1 THEN r ELSE ParseFail

Positions(s, tok) == {i \in 1..Len(s) : s[i] = tok}
SetMin(S) == CHOOSE x \in S : \A y \in S : x <= y
SetMax(S) == CHOOSE x \in S : \A y \in S : y <= x

\* content.match(/\{[\s\S]*\}/): the leftmost match starts at the first "{"
\* that has a "}" after it, and the greedy [\s\S]* runs to the last "}".
\* <<>> stands for null (no match); a match is never empty.
RegexMatch(content) ==
  LET opens == Positions(content, "{")
      closes == Positions(content, "}")
  IN IF opens = {} \/ closes = {} THEN <<>>
     ELSE LET i == SetMin(opens)
              j == SetMax(closes)
          IN IF j > i THEN SubSeq(content, i, j) ELSE <<>>

ErrorResponse(code, msg) == [status |-> code, error |-> msg, body |-> NoBody]
JsonResponse(value) == [status |-> 200, error |-> "", body |-> value]

\* the catch block: { error: error.message || 'Failed to analyze image' }, 500
CatchResponse(message) ==
  ErrorResponse(500, IF message = "" THEN "Failed to analyze image" ELSE message)

\* What openai.chat.completions.create does: it throws an error with a
\* message, or it answers with a text (the empty text also stands for a
\* missing choice or content, which !content treats alike).
Throws(msg) == [kind |-> "throw", msg |-> msg, text |-> <<>>]
Content(text) == [kind |-> "content", msg |-> "", text |-> text]

\* POST with the two presence checks in the other order.
POST_ImageFirst(req, up) ==
  IF Falsy(req.image) THEN ErrorResponse(400, "Image is required")
  ELSE IF Falsy(req.apiKey) THEN ErrorResponse(400, "OpenAI API key is required")
  ELSE IF up.kind = "throw" THEN CatchResponse(up.msg)
  ELSE IF up.text = <<>> THEN CatchResponse("No response from OpenAI")
  ELSE LET jsonMatch == RegexMatch(up.text)
       IN IF jsonMatch = <<>>
          THEN CatchResponse("Invalid response format from OpenAI")
          ELSE LET analysisResult == JSONParse(jsonMatch)
               IN IF analysisResult.ok
                  THEN JsonResponse(analysisResult.val)
                  ELSE CatchResponse("SyntaxError")

\* POST(request), with up the upstream's behaviour.
POST(req, up) ==
  IF Falsy(req.apiKey) THEN ErrorResponse(400, "OpenAI API key is required")
  ELSE IF Falsy(req.image) THEN ErrorResponse(400, "Image is required")
  ELSE IF up.kind = "throw" THEN CatchResponse(up.msg)
  ELSE IF up.text = <<>> THEN CatchResponse("No response from OpenAI")
  ELSE LET jsonMatch == RegexMatch(up.text)
       IN IF jsonMatch = <<>>
          THEN CatchResponse("Invalid response format from OpenAI")
          ELSE LET analysisResult == JSONParse(jsonMatch)
               IN IF analysisResult.ok
                  THEN JsonResponse(analysisResult.val)
                  ELSE CatchResponse("SyntaxError")

---------------------------------------------------------------------------
(* Session Tracker: src/unnamed/part_000 *)

Goals == {"lose", "maintain", "gain"}
NoFile == Null
Files == {"meal.jpg"}

\* URL.createObjectURL(file)
ObjectURL(f) == CASE f = "meal.jpg" -> "blob:meal.jpg"
\* reader.result after a successful readAsDataURL(file)
DataURL(f) == CASE f = "meal.jpg" -> "data:image/jpeg;base64,meal"

ValidationMessage == "Please provide an OpenAI API key and select an image"

\* goal === 'gain' ? 2.0 : goal === 'maintain' ? 1.6 : 1.2, in tenths
MultiplierTenths(g) == IF g = "gain" THEN 20 ELSE IF g = "maintain" THEN 16 ELSE 12

\* Math.round(n / d) for d > 0: the nearest integer, a tie going up.
MathRound(n, d) == (2 * n + d) \div (2 * d)

\* The goal effect with Math.floor in place of Math.round.
GoalEffect_Floor(w, g) == (w * MultiplierTenths(g)) \div 10

\* The effect on [weight, goal]: setDailyGoal(Math.round(weight * multiplier)).
\* For an integer weight the product is a multiple of 0.2, never within
\* floating-point error of a tie, so the rational computation is the double's.
GoalEffect(w, g) == MathRound(w * MultiplierTenths(g), 10)

RECURSIVE Reduce(_)
\* mealHistory.reduce((sum, meal) => sum + meal.totalProtein, 0)
Reduce(h) == IF h = <<>> THEN 0 ELSE Reduce(SubSeq(h, 1, Len(h) - 1)) + h[Len(h)].totalProtein

\* The total effect taking the newest meal alone instead of the sum.
TotalEffect_LastOnly(h) == IF h = <<>> THEN 0 ELSE h[Len(h)].totalProtein

\* The effect on [mealHistory]: setDailyTotal(total)
TotalEffect(h) == Reduce(h)

\* data.totalProtein of a parsed reply: the value of the last "totalProtein"
\* member of the object (JSON.parse keeps the last of a repeated key).
TotalProteinOf(body) ==
  LET nums == SelectSeq(body.v, LAMBDA m : m.t = "num")
  IN nums[Len(nums)].v

HasTotalProtein(body) == \E i \in DOMAIN body.v : body.v[i].t = "num"

\* Math.min((dailyTotal / dailyGoal) * 100, 100), as a JavaScript number:
\* NaN, -Infinity, or the rational num / den with den > 0.
Number(n, d) == [kind |-> "number", num |-> n, den |-> d]
ProgressOf(total, goalGrams) ==
  IF goalGrams = 0
  THEN IF total = 0 THEN [kind |-> "NaN", num |-> 0, den |-> 1]
       ELSE IF total > 0 THEN Number(100, 1)
       ELSE [kind |-> "-Infinity", num |-> 0, den |-> 1]
  ELSE LET n == IF goalGrams > 0 THEN 100 * total ELSE -(100 * total)
           d == IF goalGrams > 0 THEN goalGrams ELSE -goalGrams
       IN IF n > 100 * d THEN Number(100, 1) ELSE Number(n, d)

progressPercentage == ProgressOf(dailyTotal, dailyGoal)

\* the analyze button is rendered and enabled: previewUrl && !(analyzing || !apiKey)
AnalyzeButtonEnabled == previewUrl # "" /\ ~(analyzing \/ apiKey = "")
\* the reset button is rendered: mealHistory.length > 0
ResetButtonRendered == Len(mealHistory) > 0
\* the file input is enabled: disabled={!apiKey}
FileInputEnabled == apiKey # ""

Event(op, ok, msg, stale) == [op |-> op, ok |-> ok, msg |-> msg, stale |-> stale]

RemoveAt(s, i) == SubSeq(s, 1, i - 1) \o SubSeq(s, i + 1, Len(s))

\* currentAnalysis = null
NoAnalysis == [null |-> TRUE]

\* A MealAnalysis. foods and timestamp are carried to the display only and are
\* left out; stale is history: the analysis was submitted before the latest
\* resetDay.
MealAnalysis(totalProtein, stale) == [totalProtein |-> totalProtein, stale |-> stale]

\* What the upstream model does for a request of the tracker.
TrackerUpstreams ==
  { Throws("Incorrect API key provided"),
    Content(<<"p">>),
    Content(<<"p", "{", "49", "}", "p">>),
    Content(<<"{", "{", "-10", "}", "-10", "}">>) }

\* Weights typed into the number input (min and max do not stop typing).
TrackerWeights == {0, 70}

---------------------------------------------------------------------------
(* Handlers *)

\* onChange of the API key input: setApiKey(e.target.value)
SetApiKey(k) ==
  /\ apiKey' = k
  /\ last' = Event("setApiKey", TRUE, "", FALSE)
  /\ UNCHANGED <<weight, goal, dailyGoal, selectedFile, previewUrl, analyzing,
                 currentAnalysis, mealHistory, dailyTotal, error, inflight, gatewayVars>>

\* onChange of the weight input: setWeight(Number(e.target.value)), then the
\* effect on [weight, goal]
SetWeight(w) ==
  /\ weight' = w
  /\ dailyGoal' = GoalEffect(w, goal)
  /\ last' = Event("setWeight", TRUE, "", FALSE)
  /\ UNCHANGED <<apiKey, goal, selectedFile, previewUrl, analyzing, currentAnalysis,
                 mealHistory, dailyTotal, error, inflight, gatewayVars>>

\* onChange of the goal select: setGoal(e.target.value), then the effect on
\* [weight, goal]
SetGoal(g) ==
  /\ goal' = g
  /\ dailyGoal' = GoalEffect(weight, g)
  /\ last' = Event("setGoal", TRUE, "", FALSE)
  /\ UNCHANGED <<apiKey, weight, selectedFile, previewUrl, analyzing, currentAnalysis,
                 mealHistory, dailyTotal, error, inflight, gatewayVars>>

\* handleFileSelect with a file chosen (with none chosen it does nothing)
HandleFileSelect(f) ==
  /\ selectedFile' = f
  /\ previewUrl' = ObjectURL(f)
  /\ error' = ""
  /\ currentAnalysis' = NoAnalysis
  /\ last' = Event("handleFileSelect", TRUE, "", FALSE)
  /\ UNCHANGED <<apiKey, weight, goal, dailyGoal, analyzing, mealHistory, dailyTotal,
                 inflight, gatewayVars>>

\* analyzeImage with the guard !selectedFile && !apiKey.
AnalyzeImage_AndGuard ==
  IF selectedFile = NoFile /\ apiKey = ""
  THEN /\ error' = ValidationMessage
       /\ last' = Event("analyzeImage", FALSE, ValidationMessage, FALSE)
       /\ UNCHANGED <<apiKey, weight, goal, dailyGoal, selectedFile, previewUrl, analyzing,
                      currentAnalysis, mealHistory, dailyTotal, inflight, gatewayVars>>
  ELSE /\ Len(mealHistory) + Len(inflight) < MaxMeals
       /\ analyzing' = FALSE
       /\ error' = ""
       /\ inflight' = Append(inflight, [phase |-> "reading", file |-> selectedFile,
                                        apiKey |-> apiKey, image |-> Absent,
                                        stale |-> FALSE])
       /\ last' = Event("analyzeImage", TRUE, "", FALSE)
       /\ UNCHANGED <<apiKey, weight, goal, dailyGoal, selectedFile, previewUrl,
                      currentAnalysis, mealHistory, dailyTotal, gatewayVars>>

\* analyzeImage, the synchronous part. Past the guard, setAnalyzing(true)
\* (line 62) and the finally's setAnalyzing(false) (line 102) are both queued
\* before React renders: the try block only starts the read and assigns
\* reader.onloadend, so the finally runs in the same handler call and the
\* flag settles at false. MaxMeals bounds the analyses started.
AnalyzeImage ==
  IF selectedFile = NoFile \/ apiKey = ""
  THEN /\ error' = ValidationMessage
       /\ last' = Event("analyzeImage", FALSE, ValidationMessage, FALSE)
       /\ UNCHANGED <<apiKey, weight, goal, dailyGoal, selectedFile, previewUrl, analyzing,
                      currentAnalysis, mealHistory, dailyTotal, inflight, gatewayVars>>
  ELSE /\ Len(mealHistory) + Len(inflight) < MaxMeals
       /\ analyzing' = FALSE
       /\ error' = ""
       /\ inflight' = Append(inflight, [phase |-> "reading", file |-> selectedFile,
                                        apiKey |-> apiKey, image |-> Absent,
                                        stale |-> FALSE])
       /\ last' = Event("analyzeImage", TRUE, "", FALSE)
       /\ UNCHANGED <<apiKey, weight, goal, dailyGoal, selectedFile, previewUrl,
                      currentAnalysis, mealHistory, dailyTotal, gatewayVars>>

\* reader.onloadend up to the await of fetch: the request leaves with
\* image = reader.result, which is null when the read failed (loadend fires
\* after an error too).
ReaderLoadEnd(i, readOk) ==
  /\ i \in DOMAIN inflight
  /\ inflight[i].phase = "reading"
  /\ inflight' = [inflight EXCEPT ![i].phase = "fetching",
                                  ![i].image = IF readOk THEN DataURL(inflight[i].file)
                                               ELSE Absent]
  /\ last' = Event("readerLoadEnd", readOk, "", inflight[i].stale)
  /\ UNCHANGED <<apiKey, weight, goal, dailyGoal, selectedFile, previewUrl, analyzing,
                 currentAnalysis, mealHistory, dailyTotal, error, gatewayVars>>

\* reader.onloadend from the response on. A non-OK response throws inside the
\* async callback: the promise it returned is rejected with nobody awaiting
\* it, and the try/catch of analyzeImage has long been left, so no state
\* changes. An OK response sets currentAnalysis and appends to whatever
\* mealHistory is by then (the functional update), and the effect on
\* [mealHistory] recomputes dailyTotal. The replies modelled all carry a
\* numeric totalProtein (without one the sum is NaN, which is not modelled).
FetchResponds(i, up) ==
  /\ i \in DOMAIN inflight
  /\ inflight[i].phase = "fetching"
  /\ LET response == POST([image |-> inflight[i].image, apiKey |-> inflight[i].apiKey], up)
         thrown == IF response.error = "" THEN "Failed to analyze image" ELSE response.error
     IN IF response.status # 200
        THEN /\ inflight' = RemoveAt(inflight, i)
             /\ last' = Event("fetchResponds", FALSE, thrown, inflight[i].stale)
             /\ UNCHANGED <<apiKey, weight, goal, dailyGoal, selectedFile, previewUrl,
                            analyzing, currentAnalysis, mealHistory, dailyTotal, error,
                            gatewayVars>>
        ELSE /\ HasTotalProtein(response.body)
             /\ LET analysis == MealAnalysis(TotalProteinOf(response.body), inflight[i].stale)
                IN /\ currentAnalysis' = analysis
                   /\ mealHistory' = Append(mealHistory, analysis)
                   /\ dailyTotal' = TotalEffect(Append(mealHistory, analysis))
             /\ inflight' = RemoveAt(inflight, i)
             /\ last' = Event("fetchResponds", TRUE, "", inflight[i].stale)
             /\ UNCHANGED <<apiKey, weight, goal, dailyGoal, selectedFile, previewUrl,
                            analyzing, error, gatewayVars>>

\* resetDay without the clearing of the pending selection and preview.
ResetDay_KeepsSelection ==
  /\ mealHistory' = <<>>
  /\ currentAnalysis' = NoAnalysis
  /\ dailyTotal' = TotalEffect(<<>>)
  /\ inflight' = [i \in DOMAIN inflight |-> [inflight[i] EXCEPT !.stale = TRUE]]
  /\ last' = Event("resetDay", TRUE, "", FALSE)
  /\ UNCHANGED <<apiKey, weight, goal, dailyGoal, selectedFile, previewUrl, analyzing,
                 error, gatewayVars>>

\* resetDay that also drops the reads and fetches in progress.
ResetDay_Cancels ==
  /\ mealHistory' = <<>>
  /\ currentAnalysis' = NoAnalysis
  /\ selectedFile' = NoFile
  /\ previewUrl' = ""
  /\ dailyTotal' = TotalEffect(<<>>)
  /\ inflight' = <<>>
  /\ last' = Event("resetDay", TRUE, "", FALSE)
  /\ UNCHANGED <<apiKey, weight, goal, dailyGoal, analyzing, error, gatewayVars>>

\* resetDay, then the effect on [mealHistory]. Nothing cancels a read or a
\* fetch in progress; the history field stale of those is set.
ResetDay ==
  /\ mealHistory' = <<>>
  /\ currentAnalysis' = NoAnalysis
  /\ selectedFile' = NoFile
  /\ previewUrl' = ""
  /\ dailyTotal' = TotalEffect(<<>>)
  /\ inflight' = [i \in DOMAIN inflight |-> [inflight[i] EXCEPT !.stale = TRUE]]
  /\ last' = Event("resetDay", TRUE, "", FALSE)
  /\ UNCHANGED <<apiKey, weight, goal, dailyGoal, analyzing, error, gatewayVars>>

---------------------------------------------------------------------------
(* Specifications *)

InitialWeight == 70

\* The state after the first render and its effects: the effect on
\* [weight, goal] sets dailyGoal (to the 112 it is created with), the effect
\* on [mealHistory] dailyTotal.
TrackerInit ==
  /\ apiKey = ""
  /\ weight = InitialWeight
  /\ goal = "maintain"
  /\ dailyGoal = GoalEffect(InitialWeight, "maintain")
  /\ selectedFile = NoFile
  /\ previewUrl = ""
  /\ analyzing = FALSE
  /\ currentAnalysis = NoAnalysis
  /\ mealHistory = <<>>
  /\ dailyTotal = TotalEffect(<<>>)
  /\ error = ""
  /\ inflight = <<>>
  /\ last = Event("init", TRUE, "", FALSE)

GatewayIdle ==
  /\ gwRequest = [image |-> Absent, apiKey |-> Absent]
  /\ gwUpstream = Content(<<>>)
  /\ gwResponse = NoResponse

\* The tracker, each handler callable in any state.
Init == TrackerInit /\ GatewayIdle

Next ==
  \/ \E k \in {"", "sk-live"} : SetApiKey(k)
  \/ \E w \in TrackerWeights : SetWeight(w)
  \/ \E g \in Goals : SetGoal(g)
  \/ \E f \in Files : HandleFileSelect(f)
  \/ AnalyzeImage
  \/ \E i \in 1..MaxMeals, readOk \in BOOLEAN : ReaderLoadEnd(i, readOk)
  \/ \E i \in 1..MaxMeals, up \in TrackerUpstreams : FetchResponds(i, up)
  \/ ResetDay

Spec == Init /\ [][Next]_vars

\* The tracker as the rendered page lets it be driven: a control that is
\* disabled or not rendered cannot be used.
SelectFile(f) == FileInputEnabled /\ HandleFileSelect(f)
ClickAnalyze == AnalyzeButtonEnabled /\ AnalyzeImage
ClickReset == ResetButtonRendered /\ ResetDay

NextUI ==
  \/ \E k \in {"", "sk-live"} : SetApiKey(k)
  \/ \E w \in TrackerWeights : SetWeight(w)
  \/ \E g \in Goals : SetGoal(g)
  \/ \E f \in Files : SelectFile(f)
  \/ ClickAnalyze
  \/ \E i \in 1..MaxMeals, readOk \in BOOLEAN : ReaderLoadEnd(i, readOk)
  \/ \E i \in 1..MaxMeals, up \in TrackerUpstreams : FetchResponds(i, up)
  \/ ClickReset

SpecUI == Init /\ [][NextUI]_vars

---------------------------------------------------------------------------
(* The Gateway alone: one request, one call of POST *)

ReplyTokens == {"{", "}", "p", "6", "49"}
RECURSIVE TextsUpTo(_)
TextsUpTo(n) ==
  IF n = 0 THEN {<<>>}
  ELSE LET shorter == TextsUpTo(n - 1)
       IN shorter \cup {Append(t, c) : t \in {x \in shorter : Len(x) = n - 1}, c \in ReplyTokens}

GatewayUpstreams ==
  {Throws(""), Throws("Incorrect API key provided")} \cup {Content(t) : t \in TextsUpTo(MaxLen)}

FieldValues(present) == {Absent, "", present}

GatewayPOST ==
  /\ gwResponse = NoResponse
  /\ gwResponse' = POST(gwRequest, gwUpstream)
  /\ last' = Event("POST", gwResponse'.status = 200, gwResponse'.error, FALSE)
  /\ UNCHANGED <<trackerVars, gwRequest, gwUpstream>>

InitGateway ==
  /\ TrackerInit
  /\ gwRequest \in [image : FieldValues(DataURL("meal.jpg")), apiKey : FieldValues("sk-live")]
  /\ gwUpstream \in GatewayUpstreams
  /\ gwResponse = NoResponse

NextGateway == GatewayPOST

SpecGateway == InitGateway /\ [][NextGateway]_vars

---------------------------------------------------------------------------
(* The profile alone: every weight of the input's range, and beyond it *)

MinWeight == 30
MaxWeight == 200
ProfileWeights == (MinWeight - 1 .. MaxWeight + 1) \cup {0, -5}

NextProfile ==
  \/ \E w \in ProfileWeights : SetWeight(w)
  \/ \E g \in Goals : SetGoal(g)

SpecProfile == Init /\ [][NextProfile]_vars

---------------------------------------------------------------------------
(* Claims *)

\* C1 (as claimed): whenever an analysis that passed the guard ends with a
\* non-OK Gateway response (400 or 500 with {error}), the error state holds
\* the Gateway's error message and mealHistory is what it was.
C1_GatewayFailureSurfaced ==
  [][(last'.op = "fetchResponds" /\ ~last'.ok)
       => (error' = last'.msg /\ mealHistory' = mealHistory)]_vars

\* C2: a call of analyzeImage with no selected image or with an empty apiKey
\* sets error to the validation message, starts no read (so no request to the
\* Gateway can follow from it) and leaves mealHistory alone.
C2_GuardRejects ==
  [][(last'.op = "analyzeImage" /\ (selectedFile = NoFile \/ apiKey = ""))
       => /\ error' = ValidationMessage
          /\ ~last'.ok
          /\ inflight' = inflight
          /\ mealHistory' = mealHistory]_vars

\* C2, reached: analyzeImage was called with a file selected and no apiKey, and
\* with something in flight and in the history to leave alone.
C2_Witness ==
  /\ last.op = "analyzeImage" /\ ~last.ok
  /\ apiKey = "" /\ selectedFile # NoFile
  /\ error = ValidationMessage
  /\ Len(inflight) = 1 /\ Len(mealHistory) = 1

\* the field an error string of the Gateway names
FieldNamed(msg) ==
  CASE msg = "OpenAI API key is required" -> "apiKey"
    [] msg = "Image is required" -> "image"
    [] OTHER -> "none"

RECURSIVE SumOfTotalProtein(_)
\* the sum of totalProtein over the entries of a history
SumOfTotalProtein(h) == IF h = <<>> THEN 0 ELSE Head(h).totalProtein + SumOfTotalProtein(Tail(h))

\* C4: dailyTotal is the sum of totalProtein over mealHistory, after every
\* append and after resetDay (where it is 0).
C4_DailyTotalIsSum ==
  /\ dailyTotal = SumOfTotalProtein(mealHistory)
  /\ last.op = "resetDay" => dailyTotal = 0

\* C4, reached: a second meal has just been appended.
C4_Witness ==
  /\ last.op = "fetchResponds" /\ last.ok
  /\ Len(mealHistory) = 2
  /\ mealHistory[1].totalProtein = 49 /\ mealHistory[2].totalProtein = -10
  /\ dailyTotal = 39

\* C5: resetDay leaves mealHistory empty and the selection and preview
\* cleared, and leaves weight, goal and dailyGoal as they were.
C5_ResetDayFrame ==
  [][last'.op = "resetDay"
       => /\ mealHistory' = <<>>
          /\ selectedFile' = NoFile
          /\ previewUrl' = ""
          /\ weight' = weight /\ goal' = goal /\ dailyGoal' = dailyGoal]_vars

\* C5, reached: resetDay has run with a profile other than the initial one.
C5_Witness ==
  /\ last.op = "resetDay"
  /\ mealHistory = <<>> /\ selectedFile = NoFile /\ previewUrl = ""
  /\ weight = 70 /\ goal = "lose" /\ dailyGoal = 84

\* C6 (as claimed): progressPercentage is a number in [0,100]; stated for the
\* states that render the progress bar (mealHistory not empty).
C6_ProgressInRange ==
  Len(mealHistory) > 0
    => /\ progressPercentage.kind = "number"
       /\ 0 <= progressPercentage.num
       /\ progressPercentage.num <= 100 * progressPercentage.den

\* multiplier(goal) of the specification, in tenths
SpecMultiplierTenths(g) == CASE g = "lose" -> 12 [] g = "maintain" -> 16 [] g = "gain" -> 20

\* C7: for a weight in [30,200], dailyGoal is weight x multiplier(goal) rounded
\* to the nearest integer (dailyGoal - 0.5 <= w x m < dailyGoal + 0.5), whatever
\* changes of weight and goal came before; 70 and maintain give 112.
C7_DailyGoal ==
  /\ weight \in MinWeight..MaxWeight
       => /\ 10 * dailyGoal - 5 <= weight * SpecMultiplierTenths(goal)
          /\ weight * SpecMultiplierTenths(goal) < 10 * dailyGoal + 5
  /\ (weight = 70 /\ goal = "maintain") => dailyGoal = 112

\* C7, reached: a weight whose product has a fraction above one half, after a
\* change of goal.
C7_Witness ==
  /\ last.op = "setGoal"
  /\ weight = 33 /\ goal = "maintain" /\ dailyGoal = 53

\* the brace-delimited substrings of a text, as <<first, last>> positions
BraceDelimited(text) ==
  {<<i, j>> \in (1..Len(text)) \X (1..Len(text)) : i < j /\ text[i] = "{" /\ text[j] = "}"}
\* those that start at the first "{" of the text and are JSON; there is at
\* most one, the object that this brace opens
JsonSpans(text) ==
  {ij \in BraceDelimited(text) : /\ \A k \in 1..(ij[1] - 1) : text[k] # "{"
                                 /\ JSONParse(SubSeq(text, ij[1], ij[2])).ok}
FirstJsonSpan(text) == CHOOSE ij \in JsonSpans(text) : TRUE

\* C8 (as claimed): for a reply text, the result is the parse of the first
\* brace-delimited JSON substring (the object opened by the first "{"),
\* whatever surrounds it, with status 200; a text with no brace-delimited
\* substring gives the format error.
C8_FirstJsonSubstring ==
  (/\ gwResponse # NoResponse
   /\ ~Falsy(gwRequest.image) /\ ~Falsy(gwRequest.apiKey)
   /\ gwUpstream.kind = "content" /\ gwUpstream.text # <<>>)
    => LET text == gwUpstream.text
       IN IF BraceDelimited(text) = {}
          THEN /\ gwResponse.status = 500
               /\ gwResponse.error = "Invalid response format from OpenAI"
          ELSE IF JsonSpans(text) = {}
          THEN gwResponse.status = 500
          ELSE LET ij == FirstJsonSpan(text)
               IN gwResponse = JsonResponse(JSONParse(SubSeq(text, ij[1], ij[2])).val)

\* C9 (as claimed): analyzing is true whenever an analysis that passed the
\* guard has not completed, and at most one analysis is in flight.
C9_AnalyzingWhileInFlight ==
  /\ inflight # <<>> => analyzing
  /\ Len(inflight) <= 1

\* C10 (as claimed): mealHistory holds no analysis submitted before the latest
\* resetDay, and no such analysis is currentAnalysis.
C10_NoStaleAppend ==
  /\ \A i \in DOMAIN mealHistory : ~mealHistory[i].stale
  /\ currentAnalysis # NoAnalysis => ~currentAnalysis.stale

\* C10 (amended): resetDay empties mealHistory, so what it holds later was
\* appended after that reset; resetDay cancels nothing, every analysis in
\* flight stays in flight; and a successful completion, of an analysis
\* submitted before the reset like of any other, appends its result to
\* mealHistory and makes it currentAnalysis.
C10_ResetCancelsNothing ==
  [][/\ last'.op = "resetDay"
          => /\ mealHistory' = <<>>
             /\ Len(inflight') = Len(inflight)
             /\ \A i \in DOMAIN inflight :
                  /\ inflight'[i].stale
                  /\ inflight'[i].phase = inflight[i].phase
     /\ (last'.op = "fetchResponds" /\ last'.ok)
          => /\ mealHistory' = Append(mealHistory, currentAnalysis')
             /\ currentAnalysis'.stale = last'.stale]_vars

\* C10, reached: an analysis submitted before resetDay has completed after it
\* and is the only entry of the history.
C10_Witness ==
  /\ last.op = "fetchResponds" /\ last.ok /\ last.stale
  /\ Len(mealHistory) = 1 /\ mealHistory[1].stale
  /\ currentAnalysis = mealHistory[1]

====
